---- MODULE Spec2Model ----
(***************************************************************************)
(* Model of src/flask_app.py: the sampling pipeline behind the Dash        *)
(* callback update_dashboard (get_public_ip, get_isp_info, is_starlink,    *)
(* get_internet_speed, get_internet_details, save_to_csv, load_data) and   *)
(* the store internet_info.csv.                                            *)
(*                                                                         *)
(* Python values are tagged: Str(s) is a str, Num(n) a float given in      *)
(* tenths (Num(331) is 33.1), NaN is pandas' missing value.  A CSV cell is *)
(* a TLA+ string.                                                          *)
(*                                                                         *)
(* update_dashboard is a Dash callback: the server started by              *)
(* app.run_server calls it once per callback request, each request in a    *)
(* thread of its own, and the source holds no lock around it.  Spec is     *)
(* that system; SeqSpec is its runs in which no two calls overlap;         *)
(* BuildSpec builds one record from any ISP metadata.                      *)
(***************************************************************************)
EXTENDS Integers, Sequences, FiniteSets, TLC

\* ------------------------------------------------------------------ bounds
MaxCycles == 2
MaxClock == 1

\* The two Inputs of the callback: each fires update_dashboard in a request of
\* its own, which the server runs in a thread of its own.
Inputs == {"refresh-button", "interval-component"}

\* ------------------------------------------------------------ Python values
Str(s) == [k |-> "str", s |-> s, n |-> 0]
Num(n) == [k |-> "num", s |-> "", n |-> n]
NaN == [k |-> "nan", s |-> "", n |-> 0]

\* A dict of strings is [keys |-> the keys it holds, val |-> their values].
\* Absent marks, in a constructor's arguments, a key the dict does not hold.
Absent == "<absent>"
NoLoc == <<Absent>>

\* dict.get(key, default)
Get(d, key, default) == IF key \in d.keys THEN d.val[key] ELSE default

\* The JSON object of the ISP/geo lookup; loc is a string as Split reads it.
IspDict(org, asn, city, region, country, loc) ==
  [keys |-> {k \in {"org", "asn", "city", "region", "country", "loc"} :
               CASE k = "org" -> org # Absent
                 [] k = "asn" -> asn # Absent
                 [] k = "city" -> city # Absent
                 [] k = "region" -> region # Absent
                 [] k = "country" -> country # Absent
                 [] OTHER -> loc # NoLoc},
   val |-> [org |-> org, asn |-> asn, city |-> city, region |-> region,
            country |-> country, loc |-> loc]]
NoDict == IspDict(Absent, Absent, Absent, Absent, Absent, NoLoc)

\* ---------------------------------------------------------------- text/float
\* Decimal texts of the model and the floats they denote, in tenths.
FloatText == <<"33.1", "-96.8", "1.5", "2.5", "3.5", "50.0", "10.0", "20.0">>
FloatVal == <<331, -968, 15, 25, 35, 500, 100, 200>>

IsFloatText(s) == \E i \in 1..Len(FloatText) : FloatText[i] = s
\* float(s), as read_csv's parser converts a numeric cell
ParseFloat(s) == FloatVal[CHOOSE i \in 1..Len(FloatText) : FloatText[i] = s]
\* repr(x), as to_csv writes a float
FloatRepr(n) == FloatText[CHOOSE i \in 1..Len(FloatVal) : FloatVal[i] = n]

\* read_csv's default na_values (keep_default_na=True)
NaValues == {"", "#N/A", "#N/A N/A", "#NA", "-1.#IND", "-1.#QNAN", "-NaN", "-nan",
             "1.#IND", "1.#QNAN", "<NA>", "N/A", "NA", "NULL", "NaN", "None",
             "n/a", "nan", "null"}

\* datetime.now().strftime('%Y-%m-%d %H:%M:%S') at clock reading c
TimeText == <<"2024-01-01 00:00:00", "2024-01-01 00:01:00", "2024-01-01 00:02:00",
              "2024-01-01 00:03:00", "2024-01-01 00:04:00", "2024-01-01 00:05:00">>
strftime(c) == TimeText[c + 1]
ClockOf(s) == CHOOSE c \in 0..(Len(TimeText) - 1) : TimeText[c + 1] = s

\* ------------------------------------------------------------------- schema
fieldnames == <<"Timestamp", "IP Address", "ISP", "City", "Region", "Country",
                "Latitude", "Longitude", "Network Type",
                "Download Speed (Mbps)", "Upload Speed (Mbps)", "Ping (ms)">>
\* key order of the dict literal in get_internet_details
detailsKeys == <<"Timestamp", "IP Address", "ISP", "City", "Region", "Country",
                 "Latitude", "Longitude", "Network Type",
                 "Download Speed (Mbps)", "Upload Speed (Mbps)", "Ping (ms)">>
SpeedKeys == {"Download Speed (Mbps)", "Upload Speed (Mbps)", "Ping (ms)"}

Range(s) == {s[i] : i \in 1..Len(s)}

\* ---------------------------------------------------------- str.split(',')
\* A string is a sequence of tokens, "," being the comma; every part between
\* commas is one token or empty.
Comma == ","
Join(run) == IF run = <<>> THEN "" ELSE run[1]
HasComma(s) == \E i \in 1..Len(s) : s[i] = Comma
FirstComma(s) == CHOOSE i \in 1..Len(s) : s[i] = Comma /\ \A j \in 1..(i - 1) : s[j] # Comma

RECURSIVE Split(_)
Split(s) ==
  IF ~HasComma(s) THEN <<Join(s)>>
  ELSE <<Join(SubSeq(s, 1, FirstComma(s) - 1))>>
         \o Split(SubSeq(s, FirstComma(s) + 1, Len(s)))

DefaultLoc == <<"Unknown", Comma, "Unknown">>

\* ------------------------------------------------------------- classification
known_starlink_asn == "AS14593"
known_starlink_org == "Space Exploration Technologies Corp"

is_starlink_and(isp_info) ==
  Get(isp_info, "org", Absent) = known_starlink_org
    /\ Get(isp_info, "asn", Absent) = known_starlink_asn

is_starlink(isp_info) ==
  Get(isp_info, "org", Absent) = known_starlink_org
    \/ Get(isp_info, "asn", Absent) = known_starlink_asn

\* ------------------------------------------------------------- external calls
\* requests.get(...); raise_for_status(); json()['ip']
get_public_ip(resp) ==
  IF resp.ok THEN [raised |-> FALSE, val |-> resp.body]
  ELSE [raised |-> TRUE, val |-> Absent]

get_isp_info_swallow(resp) ==
  [raised |-> FALSE, val |-> IF resp.ok THEN resp.body ELSE NoDict]

\* requests.get(...); raise_for_status(); json()
get_isp_info(resp) ==
  IF resp.ok THEN [raised |-> FALSE, val |-> resp.body]
  ELSE [raised |-> TRUE, val |-> NoDict]

ErrorSpeed == [d \in SpeedKeys |-> Str("Error")]
\* results["download"] / 1_000_000, in tenths of a Mbps
Mbps(raw) == raw \div 100000

MeasuredSpeed(results) ==
  [d \in SpeedKeys |->
     IF d = "Download Speed (Mbps)" THEN Num(Mbps(results.download))
     ELSE IF d = "Upload Speed (Mbps)" THEN Num(Mbps(results.upload))
     ELSE Num(results.ping)]

get_internet_speed_partial(st) ==
  IF st.kind = "ok" THEN [raised |-> FALSE, val |-> MeasuredSpeed(st.results)]
  ELSE IF st.kind = "ConfigRetrievalError"
    THEN [raised |-> FALSE,
          val |-> [ErrorSpeed EXCEPT !["Ping (ms)"] = Num(st.results.ping)]]
  ELSE [raised |-> TRUE, val |-> ErrorSpeed]

\* try: Speedtest(); download(); upload(); results.dict()
\* except speedtest.ConfigRetrievalError: the three sentinels
get_internet_speed(st) ==
  IF st.kind = "ok" THEN [raised |-> FALSE, val |-> MeasuredSpeed(st.results)]
  ELSE IF st.kind = "ConfigRetrievalError" THEN [raised |-> FALSE, val |-> ErrorSpeed]
  ELSE [raised |-> TRUE, val |-> ErrorSpeed]

\* ------------------------------------------------------------------ building
\* the dict built by get_internet_details once the lookups and the measurement
\* have returned; now is the clock reading
BuildDetails(ip_, isp_info, speed, now) ==
  LET loc == Split(Get(isp_info, "loc", DefaultLoc))
      org == Get(isp_info, "org", "Unknown")
  IN [f \in Range(detailsKeys) |->
        CASE f = "Timestamp" -> Str(strftime(now))
          [] f = "IP Address" -> Str(ip_)
          [] f = "ISP" -> Str(org)
          [] f = "City" -> Str(Get(isp_info, "city", "Unknown"))
          [] f = "Region" -> Str(Get(isp_info, "region", "Unknown"))
          [] f = "Country" -> Str(Get(isp_info, "country", "Unknown"))
          [] f = "Latitude" -> Str(IF Len(loc) > 1 THEN loc[1] ELSE "Unknown")
          [] f = "Longitude" -> Str(IF Len(loc) > 1 THEN loc[2] ELSE "Unknown")
          [] f = "Network Type" -> Str(IF is_starlink(isp_info) THEN "Starlink" ELSE org)
          [] OTHER -> speed[f]]

\* ---------------------------------------------------------------- DataFrames
\* A DataFrame is [cols |-> column names in order, rows |-> rows of values];
\* the file is [st |-> "missing" | "open" | "table", cols, rows |-> rows of cells],
\* "open" being the file truncated by to_csv's open and not yet written.
EmptyDF == [cols |-> <<>>, rows |-> <<>>]
MissingFile == [st |-> "missing", cols |-> <<>>, rows |-> <<>>]
OpenFile == [st |-> "open", cols |-> <<>>, rows |-> <<>>]

\* read_csv infers one type per column: float when every cell that is not a
\* missing-value marker is numeric, str otherwise
NumericColumn(rows, c) ==
  \A i \in 1..Len(rows) : rows[i][c] \in NaValues \/ IsFloatText(rows[i][c])

ParseCell(rows, c, i) ==
  IF rows[i][c] \in NaValues THEN NaN
  ELSE IF NumericColumn(rows, c) THEN Num(ParseFloat(rows[i][c]))
  ELSE Str(rows[i][c])

\* pd.read_csv('internet_info.csv')
read_csv(f) ==
  IF f.st = "missing" THEN [err |-> "FileNotFoundError", df |-> EmptyDF]
  ELSE IF f.st = "open" THEN [err |-> "EmptyDataError", df |-> EmptyDF]
  ELSE [err |-> "none",
        df |-> [cols |-> f.cols,
                rows |-> [i \in 1..Len(f.rows) |->
                            [c \in Range(f.cols) |-> ParseCell(f.rows, c, i)]]]]

\* pd.DataFrame([details])
DataFrameOf(d) == [cols |-> detailsKeys, rows |-> <<d>>]

\* pd.DataFrame([details], columns=fieldnames)
DataFrameCols(d, columns) ==
  [cols |-> columns,
   rows |-> <<[c \in Range(columns) |-> IF c \in DOMAIN d THEN d[c] ELSE NaN]>>]

Reindex(row, cols) == [c \in Range(cols) |-> IF c \in DOMAIN row THEN row[c] ELSE NaN]

\* pd.concat([a, b], ignore_index=True)
concat(a, b) ==
  LET cols == a.cols \o SelectSeq(b.cols, LAMBDA c : c \notin Range(a.cols))
  IN [cols |-> cols,
      rows |-> [i \in 1..(Len(a.rows) + Len(b.rows)) |->
                  IF i <= Len(a.rows) THEN Reindex(a.rows[i], cols)
                  ELSE Reindex(b.rows[i - Len(a.rows)], cols)]]

FormatCell(v) ==
  IF v.k = "str" THEN v.s ELSE IF v.k = "num" THEN FloatRepr(v.n) ELSE ""

\* df.to_csv('internet_info.csv', index=False), once written and closed
to_csv(df_) ==
  [st |-> "table", cols |-> df_.cols,
   rows |-> [i \in 1..Len(df_.rows) |->
               [c \in Range(df_.cols) |-> FormatCell(df_.rows[i][c])]]]

\* the DataFrame save_to_csv writes, given what its read_csv returned
save_frame(r, d) ==
  IF r.err = "none" THEN concat(r.df, DataFrameOf(d))
  ELSE DataFrameCols(d, fieldnames)

\* load_data()
load_data(f) ==
  LET r == read_csv(f)
  IN IF r.err = "none" THEN [raised |-> FALSE, df |-> r.df]
     ELSE IF r.err = "FileNotFoundError"
       THEN [raised |-> FALSE, df |-> [cols |-> fieldnames, rows |-> <<>>]]
     ELSE [raised |-> TRUE, df |-> EmptyDF]

\* ------------------------------------------------------------ environment
TheIp == "203.0.113.7"
IpResponses == {[ok |-> TRUE, body |-> TheIp], [ok |-> FALSE, body |-> Absent]}

Loc2 == <<"33.1", Comma, "-96.8">>
Loc1 == <<"bad-loc">>
Loc3 == <<"1.5", Comma, "2.5", Comma, "3.5">>

StarlinkInfo == IspDict(known_starlink_org, known_starlink_asn, "Plano", "Texas", "US", Loc2)
NamibiaInfo == IspDict("Telecom Namibia", "AS36996", "Windhoek", "Khomas", "NA", Loc1)

\* the answers of the ISP/geo lookup in the concurrent specification
IspInfos == {StarlinkInfo, NamibiaInfo}
IspResponses ==
  {[ok |-> TRUE, body |-> i] : i \in IspInfos} \cup {[ok |-> FALSE, body |-> NoDict]}

\* the answers of the ISP/geo lookup when building one record
AllIspInfos ==
  {IspDict(o, a, "Denver", Absent, c, l) :
     o \in {Absent, "Comcast", known_starlink_org},
     a \in {Absent, "AS7922", known_starlink_asn},
     c \in {"US"},
     l \in {NoLoc, Loc2, Loc1, Loc3, <<>>, <<Comma>>}}
AllIspResponses ==
  {[ok |-> TRUE, body |-> i] : i \in AllIspInfos} \cup {[ok |-> FALSE, body |-> NoDict]}

\* what the measurement subsystem does: raw bits per second, ping in tenths of a ms
RawResults == [download |-> 50000000, upload |-> 10000000, ping |-> 200]
SpeedtestOutcomes ==
  {[kind |-> k, results |-> RawResults] :
     k \in {"ok", "ConfigRetrievalError", "SpeedtestException"}}

\* -------------------------------------------------------------------- state
VARIABLES
  file,        \* internet_info.csv
  clock,       \* the wall clock
  cycles,      \* callback invocations started
  pc,          \* per input: where its update_dashboard call stands
  ip,          \* per input: get_public_ip's result
  isp_info,    \* per input: get_isp_info's result
  http,        \* per input: how this cycle's last HTTP lookup ended
  meas,        \* per input: what the measurement subsystem did in this cycle
  details,     \* per input: the record of this cycle
  df,          \* per input: save_to_csv's DataFrame
  before,      \* per input: the rows save_to_csv's read_csv returned
  loaded,      \* per input: load_data's result
  error,       \* per input: the exception that left update_dashboard
  log,         \* history: the rows of the last completed to_csv
  nCompleted   \* history: cycles whose save_to_csv returned

vars == <<file, clock, cycles, pc, ip, isp_info, http, meas, details, df, before,
          loaded, error, log, nCompleted>>

NoDetails == [f \in {} |-> NaN]

InitLocals ==
  /\ ip = [t \in Inputs |-> Absent]
  /\ isp_info = [t \in Inputs |-> NoDict]
  /\ http = [t \in Inputs |-> "none"]
  /\ meas = [t \in Inputs |-> "none"]
  /\ details = [t \in Inputs |-> NoDetails]
  /\ df = [t \in Inputs |-> EmptyDF]
  /\ before = [t \in Inputs |-> <<>>]
  /\ loaded = [t \in Inputs |-> EmptyDF]
  /\ error = [t \in Inputs |-> "none"]

Init ==
  /\ file = MissingFile
  /\ clock = 0
  /\ cycles = 0
  /\ pc = [t \in Inputs |-> "idle"]
  /\ InitLocals
  /\ log = <<>>
  /\ nCompleted = 0

\* an exception leaves update_dashboard
Raise(t, e) ==
  /\ pc' = [pc EXCEPT ![t] = "raised"]
  /\ error' = [error EXCEPT ![t] = e]

\* ------------------------------------------------------------------ actions
\* Input t fires (a click, an interval tick): the server calls update_dashboard.
Trigger(t) ==
  /\ pc[t] = "idle"
  /\ cycles < MaxCycles
  /\ cycles' = cycles + 1
  /\ pc' = [pc EXCEPT ![t] = "ip"]
  /\ UNCHANGED <<file, clock, ip, isp_info, http, meas, details, df, before, loaded, error,
                 log, nCompleted>>

\* ip = get_public_ip()
GetPublicIp(t) ==
  /\ pc[t] = "ip"
  /\ \E resp \in IpResponses :
       LET r == get_public_ip(resp)
       IN /\ http' = [http EXCEPT ![t] = IF resp.ok THEN "ok" ELSE "failed"]
          /\ IF r.raised
               THEN Raise(t, "HTTPError") /\ UNCHANGED ip
               ELSE /\ ip' = [ip EXCEPT ![t] = r.val]
                    /\ pc' = [pc EXCEPT ![t] = "isp"]
                    /\ UNCHANGED error
  /\ UNCHANGED <<file, clock, cycles, isp_info, meas, details, df, before, loaded,
                 log, nCompleted>>

\* isp_info = get_isp_info(ip)
IspStep(t, resp) ==
  /\ pc[t] = "isp"
  /\ http' = [http EXCEPT ![t] = IF resp.ok THEN "ok" ELSE "failed"]
  /\ LET r == get_isp_info(resp)
     IN IF r.raised
          THEN Raise(t, "HTTPError") /\ UNCHANGED isp_info
          ELSE /\ isp_info' = [isp_info EXCEPT ![t] = r.val]
               /\ pc' = [pc EXCEPT ![t] = "speed"]
               /\ UNCHANGED error
  /\ UNCHANGED <<file, clock, cycles, ip, meas, details, df, before, loaded,
                 log, nCompleted>>

GetIspInfo(t) == \E resp \in IspResponses : IspStep(t, resp)

\* speed_info = get_internet_speed(); details = {...}; return details.
\* Time passes while the measurement runs: datetime.now() reads the clock as
\* it stood, or one reading later.
Measure(t) ==
  /\ pc[t] = "speed"
  /\ \E st \in SpeedtestOutcomes, now \in {clock, clock + 1} :
       LET r == get_internet_speed(st)
       IN /\ now <= MaxClock
          /\ clock' = now
          /\ meas' = [meas EXCEPT ![t] = st.kind]
          /\ IF r.raised
               THEN Raise(t, st.kind) /\ UNCHANGED details
               ELSE /\ details' = [details EXCEPT
                                     ![t] = BuildDetails(ip[t], isp_info[t], r.val, now)]
                    /\ pc' = [pc EXCEPT ![t] = "save_read"]
                    /\ UNCHANGED error
  /\ UNCHANGED <<file, cycles, ip, isp_info, http, df, before, loaded, log, nCompleted>>

\* save_to_csv: df = pd.read_csv(...); concat, or the one-row frame
SaveRead(t) ==
  /\ pc[t] = "save_read"
  /\ LET r == read_csv(file)
     IN IF r.err \in {"none", "FileNotFoundError"}
          THEN /\ df' = [df EXCEPT ![t] = save_frame(r, details[t])]
               /\ before' = [before EXCEPT ![t] = r.df.rows]
               /\ pc' = [pc EXCEPT ![t] = "save_open"]
               /\ UNCHANGED error
          ELSE Raise(t, r.err) /\ UNCHANGED <<df, before>>
  /\ UNCHANGED <<file, clock, cycles, ip, isp_info, http, meas, details, loaded, log, nCompleted>>

\* save_to_csv: df.to_csv(...) opens the file for writing, which truncates it
SaveOpen(t) ==
  /\ pc[t] = "save_open"
  /\ file' = OpenFile
  /\ pc' = [pc EXCEPT ![t] = "save_write"]
  /\ UNCHANGED <<clock, cycles, ip, isp_info, http, meas, details, df, before, loaded, error,
                 log, nCompleted>>

\* save_to_csv: df.to_csv(...) writes the frame and closes the file
SaveWrite(t) ==
  /\ pc[t] = "save_write"
  /\ file' = to_csv(df[t])
  /\ log' = file'.rows
  /\ nCompleted' = nCompleted + 1
  /\ pc' = [pc EXCEPT ![t] = "load"]
  /\ UNCHANGED <<clock, cycles, ip, isp_info, http, meas, details, df, before, loaded, error>>

\* df = load_data()
Load(t) ==
  /\ pc[t] = "load"
  /\ LET r == load_data(file)
     IN IF r.raised
          THEN Raise(t, "EmptyDataError") /\ UNCHANGED loaded
          ELSE /\ loaded' = [loaded EXCEPT ![t] = r.df]
               /\ pc' = [pc EXCEPT ![t] = "done"]
               /\ UNCHANGED error
  /\ UNCHANGED <<file, clock, cycles, ip, isp_info, http, meas, details, df, before,
                 log, nCompleted>>

\* update_dashboard returns its outputs, or the exception reaches the server
Return(t) ==
  /\ pc[t] \in {"done", "raised"}
  /\ pc' = [pc EXCEPT ![t] = "idle"]
  /\ ip' = [ip EXCEPT ![t] = Absent]
  /\ isp_info' = [isp_info EXCEPT ![t] = NoDict]
  /\ http' = [http EXCEPT ![t] = "none"]
  /\ meas' = [meas EXCEPT ![t] = "none"]
  /\ details' = [details EXCEPT ![t] = NoDetails]
  /\ df' = [df EXCEPT ![t] = EmptyDF]
  /\ before' = [before EXCEPT ![t] = <<>>]
  /\ loaded' = [loaded EXCEPT ![t] = EmptyDF]
  /\ error' = [error EXCEPT ![t] = "none"]
  /\ UNCHANGED <<file, clock, cycles, log, nCompleted>>

Step(t) ==
  \/ GetPublicIp(t)
  \/ GetIspInfo(t)
  \/ Measure(t)
  \/ SaveRead(t)
  \/ SaveOpen(t)
  \/ SaveWrite(t)
  \/ Load(t)
  \/ Return(t)

Next == \E t \in Inputs : Trigger(t) \/ Step(t)

Spec == Init /\ [][Next]_vars

\* One callback at a time: a trigger waits for the running call to return.
TriggerAlone(t) == Trigger(t) /\ \A u \in Inputs : pc[u] = "idle"
SeqNext == \E t \in Inputs : TriggerAlone(t) \/ Step(t)
SeqSpec == Init /\ [][SeqNext]_vars

\* One record built from any metadata: the call stands after get_public_ip.
BuildInit ==
  /\ file = MissingFile
  /\ clock = 0
  /\ cycles = 1
  /\ pc = [t \in Inputs |-> IF t = "refresh-button" THEN "isp" ELSE "idle"]
  /\ ip = [t \in Inputs |-> IF t = "refresh-button" THEN TheIp ELSE Absent]
  /\ isp_info = [t \in Inputs |-> NoDict]
  /\ http = [t \in Inputs |-> IF t = "refresh-button" THEN "ok" ELSE "none"]
  /\ meas = [t \in Inputs |-> "none"]
  /\ details = [t \in Inputs |-> NoDetails]
  /\ df = [t \in Inputs |-> EmptyDF]
  /\ before = [t \in Inputs |-> <<>>]
  /\ loaded = [t \in Inputs |-> EmptyDF]
  /\ error = [t \in Inputs |-> "none"]
  /\ log = <<>>
  /\ nCompleted = 0
GetIspInfoAny(t) == \E resp \in AllIspResponses : IspStep(t, resp)
BuildNext == GetIspInfoAny("refresh-button") \/ Measure("refresh-button")
BuildSpec == BuildInit /\ [][BuildNext]_vars

\* ------------------------------------------------------------------ claims
Last(s) == s[Len(s)]
InCycle == {"ip", "isp", "speed", "save_read", "save_open", "save_write"}
Built == {"save_read", "save_open", "save_write", "load", "done"}

\* Two values are the same when they are equal, or denote the same number.
IsNumeric(v) == v.k = "num" \/ (v.k = "str" /\ IsFloatText(v.s))
AsNumber(v) == IF v.k = "num" THEN v.n ELSE ParseFloat(v.s)
SameValue(a, b) ==
  a = b \/ (IsNumeric(a) /\ IsNumeric(b) /\ AsNumber(a) = AsNumber(b))
SameRow(r1, r2) ==
  DOMAIN r1 = DOMAIN r2 /\ \A c \in DOMAIN r1 : SameValue(r1[c], r2[c])
SameRows(s1, s2) ==
  Len(s1) = Len(s2) /\ \A i \in 1..Len(s1) : SameRow(s1[i], s2[i])
PrefixRows(s1, s2) ==
  Len(s1) <= Len(s2) /\ \A i \in 1..Len(s1) : SameRow(s1[i], s2[i])

\* the records of the last completed write, as load_data reads them
LogRecords == read_csv([st |-> "table", cols |-> fieldnames, rows |-> log]).df.rows

\* C1: save_to_csv(d) followed by load_data() returns the records read before
\* the save, in their order, followed by d, every field equal to the original
\* (numbers compared as numbers), under the canonical header.
C1RoundTrip ==
  \A t \in Inputs :
    pc[t] = "done" =>
      /\ loaded[t].cols = fieldnames
      /\ SameRows(loaded[t].rows, Append(before[t], details[t]))

\* C2: the log is append-only: the records stored after a step extend the
\* records stored before it.
C2AppendOnly == [][PrefixRows(LogRecords, LogRecords')]_vars

\* C3: the log holds one complete record per cycle whose get_internet_details
\* and save_to_csv both completed.
C3OnePerCycle ==
  /\ Len(log) = nCompleted
  /\ \A i \in 1..Len(log) : DOMAIN log[i] = Range(fieldnames)

\* C4: at most one cycle is between the start of get_internet_details and the
\* end of save_to_csv (and of load_data).
C4OneInFlight == Cardinality({t \in Inputs : pc[t] \in InCycle \cup {"load"}}) <= 1

\* C5: a cycle whose public-IP or ISP lookup failed raised out of
\* update_dashboard, measured nothing, built no record and called no
\* save_to_csv; the failing step leaves the store as it was, and nothing
\* catches the exception.
C5Failed(t) ==
  http[t] = "failed" =>
    /\ pc[t] = "raised" /\ error[t] = "HTTPError"
    /\ meas[t] = "none"
    /\ DOMAIN details[t] = {}
    /\ df[t] = EmptyDF
C5FailStep(t) ==
  (http[t] # "failed" /\ http'[t] = "failed") => (file' = file /\ log' = log)
C5Propagates(t) ==
  pc[t] = "raised" => pc'[t] \in {"raised", "idle"}
\* C5: a failed public-IP or ISP lookup is fatal to its cycle, in every state
\* and at every step.
C5IdentityFailureFatal ==
  /\ [](\A t \in Inputs : C5Failed(t))
  /\ [][\A t \in Inputs : C5FailStep(t) /\ C5Propagates(t)]_vars
C5Witness ==
  \E t \in Inputs :
    /\ http[t] = "failed" /\ ip[t] = TheIp /\ pc[t] = "raised"
    /\ file.st = "table" /\ Len(file.rows) = 1

\* C6: when the measurement subsystem fails configuration, get_internet_speed
\* does not raise, the three speed fields are all "Error", the identity fields
\* are populated as for a measured record, save_to_csv is called with the
\* record, and the write that completes it leaves the record as the last row.
IdentityKeys == Range(detailsKeys) \ SpeedKeys
C6Record(t) ==
  meas[t] = "ConfigRetrievalError" =>
    /\ pc[t] \in Built \cup {"raised"}
    /\ pc[t] = "raised" => error[t] = "EmptyDataError"
    /\ \A f \in SpeedKeys : details[t][f] = Str("Error")
    /\ details[t]["IP Address"] = Str(ip[t])
    /\ details[t]["ISP"] = Str(Get(isp_info[t], "org", "Unknown"))
    /\ details[t]["City"] = Str(Get(isp_info[t], "city", "Unknown"))
    /\ details[t]["Region"] = Str(Get(isp_info[t], "region", "Unknown"))
    /\ details[t]["Country"] = Str(Get(isp_info[t], "country", "Unknown"))
    /\ \A f \in IdentityKeys :
         details[t][f] = BuildDetails(ip[t], isp_info[t], MeasuredSpeed(RawResults),
                                      ClockOf(details[t]["Timestamp"].s))[f]
    /\ pc[t] \in {"save_open", "save_write"} => Last(df[t].rows) = details[t]
C6Written(t) ==
  (meas[t] = "ConfigRetrievalError" /\ pc[t] = "save_write" /\ pc'[t] = "load") =>
    /\ file'.st = "table"
    /\ Last(file'.rows) = [c \in Range(fieldnames) |-> FormatCell(details[t][c])]
C7SchemaStable ==
  /\ \A t \in Inputs :
       pc[t] = "load" =>
         ~load_data(file).raised /\ load_data(file).df.cols = fieldnames
  /\ file.st = "missing" =>
       load_data(file) = [raised |-> FALSE, df |-> [cols |-> fieldnames, rows |-> <<>>]]

\* C8: the Timestamp values of the stored records are non-decreasing in row
\* order.
C8Chronological ==
  \A i, j \in 1..Len(log) :
    i < j => ClockOf(log[i]["Timestamp"]) <= ClockOf(log[j]["Timestamp"])

\* C9: Latitude and Longitude are the two parts of 'loc' when it splits on ','
\* into exactly two parts, and both "Unknown" when 'loc' is absent or splits
\* into any other number of parts.
NCommas(s) == Cardinality({i \in 1..Len(s) : s[i] = Comma})
\* C9: Latitude and Longitude of every built record are the two parts of a
\* two-part 'loc', and both "Unknown" otherwise.
C9LatLon ==
  \A t \in Inputs :
    pc[t] = "save_read" =>
      LET i == isp_info[t]
          d == details[t]
      IN IF "loc" \in i.keys /\ NCommas(i.val.loc) = 1
           THEN /\ d["Latitude"] = Str(Join(SubSeq(i.val.loc, 1, FirstComma(i.val.loc) - 1)))
                /\ d["Longitude"] =
                     Str(Join(SubSeq(i.val.loc, FirstComma(i.val.loc) + 1, Len(i.val.loc))))
           ELSE d["Latitude"] = Str("Unknown") /\ d["Longitude"] = Str("Unknown")

\* C10: Network Type is "Starlink" when 'org' is "Space Exploration
\* Technologies Corp" or 'asn' is "AS14593"; otherwise it is the raw 'org', or
\* "Unknown" when 'org' is absent, and then equals the ISP field.
C10Matches(i) ==
  \/ ("org" \in i.keys /\ i.val.org = "Space Exploration Technologies Corp")
  \/ ("asn" \in i.keys /\ i.val.asn = "AS14593")
\* C10: Network Type of every built record is "Starlink" on a match of 'org'
\* or 'asn', and the ISP field (raw 'org' or "Unknown") otherwise.
C10Classification ==
  \A t \in Inputs :
    pc[t] = "save_read" =>
      LET i == isp_info[t]
          d == details[t]
      IN IF C10Matches(i)
           THEN d["Network Type"] = Str("Starlink")
           ELSE /\ d["Network Type"] = Str(IF "org" \in i.keys THEN i.val.org ELSE "Unknown")
                /\ d["Network Type"] = d["ISP"]
C10Witness ==
  \E t \in Inputs :
    /\ pc[t] = "save_read"
    /\ "org" \notin isp_info[t].keys
    /\ Get(isp_info[t], "asn", Absent) = "AS14593"
    /\ details[t]["Network Type"] = Str("Starlink")
    /\ details[t]["ISP"] = Str("Unknown")

====
